---- MODULE Spec2Model ----
(***************************************************************************)
(* Model of NewsSummarizer (src/main.ipynb): load_articles fetches every   *)
(* non-blank URL in order, collecting documents and error messages; the    *)
(* text splitter turns the documents into chunks; the summary chain joins  *)
(* the chunks into a prompt and invokes the LLM once; summarize returns    *)
(* {"summary", "errors"}.                                                  *)
(*                                                                         *)
(* Text (a Python str) is a sequence of units; a unit is a character or a  *)
(* literal fragment of a format string.  An Optional value is a sequence   *)
(* of length 0 (None) or 1.                                                *)
(***************************************************************************)
EXTENDS Integers, Sequences, FiniteSets, TLC

VARIABLES urls, run, pc, i, all_docs, errors, docs, result,
          fetchLog, splitLog, genLog, prev,
          chain, calls

\* One summarize call followed through its steps (and its repetition).
runVars == <<urls, run, pc, i, all_docs, errors, docs, result,
             fetchLog, splitLog, genLog, prev>>

vars == <<urls, run, pc, i, all_docs, errors, docs, result,
          fetchLog, splitLog, genLog, prev, chain, calls>>

\* ------------------------------------------------------------------ bounds
MaxUrls == 2
MaxBatch == 1
MaxRuns == 2
MaxChunks == 3
MaxCallUrls == 1

\* ------------------------------------------------------- input universes
Whitespace == {" "}

\* URL entries a caller may pass: empty, whitespace-only, plain, padded.
UrlEntries == {<<>>, <<" ">>, <<"a">>, <<" ", "a">>}

\* Cause texts str(e) of the exceptions the collaborators raise.
FetchCauses == {<<"timeout">>, <<"404">>}
GenCauses == {<<"rate limit">>}

\* Documents the Fetcher hands back: (page_content, metadata).  The Fetcher
\* may or may not fill in a source of its own; a page may extract to nothing.
FetchedDocs ==
    { [page_content |-> <<"x">>, metadata |-> [title |-> <<"T">>, source |-> <<"f">>]],
      [page_content |-> <<>>,    metadata |-> [title |-> <<"T">>]] }

\* Texts the LLM may return (the empty string included).
GenTexts == {<<>>, <<"S">>}

SeqsUpTo(S, n) == UNION {[1..k -> S] : k \in 0..n}

UrlLists == SeqsUpTo(UrlEntries, MaxUrls)
Batches == SeqsUpTo(FetchedDocs, MaxBatch)

\* ------------------------------------------------------------ Python bits
None == <<>>
Some(v) == <<v>>

RECURSIVE LStrip(_)
LStrip(s) ==
    IF s = <<>> THEN s
    ELSE IF Head(s) \in Whitespace THEN LStrip(Tail(s)) ELSE s

RECURSIVE RStrip(_)
RStrip(s) ==
    IF s = <<>> THEN s
    ELSE IF s[Len(s)] \in Whitespace THEN RStrip(SubSeq(s, 1, Len(s) - 1)) ELSE s

\* str.strip()
Strip(s) == RStrip(LStrip(s))

\* `if url.strip():`
NonBlankNoStrip(url) == url # <<>>
NonBlank(url) == Strip(url) # <<>>

\* f"Error loading {url}: {str(e)}"
ErrorLoadingStripped(url, cause) ==
    <<"Error loading ">> \o Strip(url) \o <<": ">> \o cause
ErrorLoading(url, cause) ==
    <<"Error loading ">> \o url \o <<": ">> \o cause

\* f"Summarization error: {str(e)}"
SummarizationError(cause) == <<"Summarization error: ">> \o cause

\* doc.metadata["source"] = url
SetSource(doc, url) ==
    [doc EXCEPT !.metadata =
        [k \in DOMAIN doc.metadata \cup {"source"} |->
            IF k = "source" THEN url ELSE doc.metadata[k]]]

\* for doc in docs: doc.metadata["source"] = url
StampSource(batch, url) == [k \in 1..Len(batch) |-> SetSource(batch[k], url)]

\* all_docs.extend(docs)
ExtendDedup(acc, batch) ==
    acc \o SelectSeq(batch, LAMBDA d : \A k \in 1..Len(acc) : acc[k] # d)
Extend(acc, batch) == acc \o batch

\* ------------------------------------------------------------ the Chunker
chunk_size == 1000
chunk_overlap == 200

\* RecursiveCharacterTextSplitter(chunk_size, chunk_overlap) on a text
\* without separators: an empty text yields no chunk, a text of at most
\* chunk_size units yields itself, a longer one yields windows of chunk_size
\* units, each starting chunk_size - chunk_overlap after the previous one.
RECURSIVE SplitText(_)
SplitText(text) ==
    IF text = <<>> THEN <<>>
    ELSE IF Len(text) <= chunk_size THEN <<text>>
    ELSE <<SubSeq(text, 1, chunk_size)>>
         \o SplitText(SubSeq(text, chunk_size - chunk_overlap + 1, Len(text)))

\* The chunks of one document carry the document's metadata.
ChunksOf(doc) ==
    LET parts == SplitText(doc.page_content)
    IN  [k \in 1..Len(parts) |->
            [page_content |-> parts[k], metadata |-> doc.metadata]]

\* self.text_splitter.split_documents(all_docs)
RECURSIVE SplitDocuments(_)
SplitDocuments(ds) ==
    IF ds = <<>> THEN <<>>
    ELSE ChunksOf(Head(ds)) \o SplitDocuments(Tail(ds))

\* ------------------------------------------------------ the summary chain
TemplateHead == "You are a professional news editor ... SOURCES: "
TemplateTail == " Follow these guidelines ... CONSOLIDATED NEWS ARTICLE: "

\* "\n\n".join([doc.page_content for doc in docs])
RECURSIVE ContextReversed(_)
ContextReversed(ds) ==
    IF ds = <<>> THEN <<>>
    ELSE IF Len(ds) = 1 THEN ds[1].page_content
    ELSE ContextReversed(Tail(ds)) \o <<"\n\n">> \o ds[1].page_content

RECURSIVE Context(_)
Context(ds) ==
    IF ds = <<>> THEN <<>>
    ELSE IF Len(ds) = 1 THEN ds[1].page_content
    ELSE ds[1].page_content \o <<"\n\n">> \o Context(Tail(ds))

\* PromptTemplate.from_template(summary_template) filled with {context}
Prompt(ds) == <<TemplateHead>> \o Context(ds) \o <<TemplateTail>>

\* ------------------------------------------------------------------ state
\* result = {"summary": None, "errors": []}
NewResult == [summary |-> None, errors |-> <<>>]

\* errors = []  (load_articles)
StaleErrors == errors
EmptyErrors == <<>>

\* all_docs = []  (load_articles)
EmptyDocs == <<>>

\* The tail of summarize (`if docs:` onwards) before it is entered.
IdleChain ==
    [pc |-> "idle", docs |-> <<>>, loaded |-> <<>>, result |-> NewResult, genLog |-> <<>>]

\* The calls in flight on the instance.
CallIds == {1, 2}

\* The locals of one summarize call before it is entered.
IdleCall ==
    [pc |-> "idle", urls |-> <<>>, i |-> 1, all_docs |-> <<>>, errors |-> <<>>,
     docs |-> <<>>, result |-> NewResult,
     fetchLog |-> <<>>, splitLog |-> <<>>, genLog |-> <<>>]

\* What a collaborator answered on call number n of the previous run.
Replays(log, n, entry) ==
    \/ prev = <<>>
    \/ /\ prev # <<>>
       /\ n <= Len(log)
       /\ log[n] = entry

Init ==
    /\ urls = <<>>
    /\ run = 0
    /\ pc = "idle"
    /\ i = 1
    /\ all_docs = <<>>
    /\ errors = <<>>
    /\ docs = <<>>
    /\ result = NewResult
    /\ fetchLog = <<>>
    /\ splitLog = <<>>
    /\ genLog = <<>>
    /\ prev = <<>>
    /\ chain = IdleChain
    /\ calls = [c \in CallIds |-> IdleCall]

\* summarize(urls) is entered: result is built and load_articles starts.
Enter(u) ==
    /\ urls' = u
    /\ run' = run + 1
    /\ pc' = "loop"
    /\ i' = 1
    /\ result' = NewResult
    /\ all_docs' = EmptyDocs
    /\ errors' = EmptyErrors
    /\ docs' = <<>>
    /\ fetchLog' = <<>>
    /\ splitLog' = <<>>
    /\ genLog' = <<>>
    /\ UNCHANGED <<chain, calls>>

\* First call on a freshly constructed NewsSummarizer.
Summarize(u) ==
    /\ pc = "idle"
    /\ run = 0
    /\ Enter(u)
    /\ prev' = <<>>

\* The caller runs summarize again on the same instance with the same list;
\* the collaborators answer each call as they did in the previous run.
Resummarize ==
    /\ pc \in {"returned", "raised"}
    /\ run < MaxRuns
    /\ Enter(urls)
    /\ prev' = <<[pc |-> pc, result |-> result, fetchLog |-> fetchLog,
                  splitLog |-> splitLog, genLog |-> genLog]>>

PrevFetch == IF prev = <<>> THEN <<>> ELSE prev[1].fetchLog
PrevSplit == IF prev = <<>> THEN <<>> ELSE prev[1].splitLog
PrevGen == IF prev = <<>> THEN <<>> ELSE prev[1].genLog

\* `for url in urls: if url.strip():` is false: the entry is skipped.
SkipBlank ==
    /\ pc = "loop"
    /\ i <= Len(urls)
    /\ ~NonBlank(urls[i])
    /\ i' = i + 1
    /\ UNCHANGED <<chain, calls, urls, run, pc, all_docs, errors, docs, result,
                   fetchLog, splitLog, genLog, prev>>

\* WebBaseLoader(url).load() returns a batch of documents.
FetchOk(batch) ==
    /\ pc = "loop"
    /\ i <= Len(urls)
    /\ NonBlank(urls[i])
    /\ LET entry == [url |-> urls[i], ok |-> TRUE, docs |-> batch, cause |-> <<>>]
       IN  /\ Replays(PrevFetch, Len(fetchLog) + 1, entry)
           /\ fetchLog' = Append(fetchLog, entry)
    /\ all_docs' = Extend(all_docs, StampSource(batch, urls[i]))
    /\ i' = i + 1
    /\ UNCHANGED <<chain, calls, urls, run, pc, errors, docs, result, splitLog, genLog, prev>>

\* WebBaseLoader(url).load() raises; `except Exception as e` records it.
FetchFailEscapes(cause) ==
    /\ pc = "loop"
    /\ i <= Len(urls)
    /\ NonBlank(urls[i])
    /\ LET entry == [url |-> urls[i], ok |-> FALSE, docs |-> <<>>, cause |-> cause]
       IN  /\ Replays(PrevFetch, Len(fetchLog) + 1, entry)
           /\ fetchLog' = Append(fetchLog, entry)
    /\ pc' = "raised"
    /\ UNCHANGED <<chain, calls, urls, run, i, all_docs, errors, docs, result, splitLog, genLog, prev>>
FetchFailBreaks(cause) ==
    /\ pc = "loop"
    /\ i <= Len(urls)
    /\ NonBlank(urls[i])
    /\ LET entry == [url |-> urls[i], ok |-> FALSE, docs |-> <<>>, cause |-> cause]
       IN  /\ Replays(PrevFetch, Len(fetchLog) + 1, entry)
           /\ fetchLog' = Append(fetchLog, entry)
    /\ errors' = Append(errors, ErrorLoading(urls[i], cause))
    /\ i' = Len(urls) + 1
    /\ UNCHANGED <<chain, calls, urls, run, pc, all_docs, docs, result, splitLog, genLog, prev>>
FetchFailRetries(cause) ==
    /\ pc = "loop"
    /\ i <= Len(urls)
    /\ NonBlank(urls[i])
    /\ LET entry == [url |-> urls[i], ok |-> FALSE, docs |-> <<>>, cause |-> cause]
       IN  /\ Replays(PrevFetch, Len(fetchLog) + 1, entry)
           /\ fetchLog' = Append(fetchLog, entry)
    /\ errors' = Append(errors, ErrorLoading(urls[i], cause))
    /\ i' = i
    /\ UNCHANGED <<chain, calls, urls, run, pc, all_docs, docs, result, splitLog, genLog, prev>>
FetchFail(cause) ==
    /\ pc = "loop"
    /\ i <= Len(urls)
    /\ NonBlank(urls[i])
    /\ LET entry == [url |-> urls[i], ok |-> FALSE, docs |-> <<>>, cause |-> cause]
       IN  /\ Replays(PrevFetch, Len(fetchLog) + 1, entry)
           /\ fetchLog' = Append(fetchLog, entry)
    /\ errors' = Append(errors, ErrorLoading(urls[i], cause))
    /\ i' = i + 1
    /\ UNCHANGED <<chain, calls, urls, run, pc, all_docs, docs, result, splitLog, genLog, prev>>

\* Loop over: `if all_docs:` is false, load_articles returns ([], errors);
\* summarize stores errors, `if docs:` is false, and returns result.
ReturnNoDocsInvokes ==
    /\ pc = "loop"
    /\ i > Len(urls)
    /\ all_docs = <<>>
    /\ docs' = <<>>
    /\ result' = [result EXCEPT !.errors = errors]
    /\ pc' = "chain"
    /\ UNCHANGED <<chain, calls, urls, run, i, all_docs, errors, fetchLog, splitLog, genLog, prev>>
ReturnNoDocs ==
    /\ pc = "loop"
    /\ i > Len(urls)
    /\ all_docs = <<>>
    /\ docs' = <<>>
    /\ result' = [result EXCEPT !.errors = errors]
    /\ pc' = "returned"
    /\ UNCHANGED <<chain, calls, urls, run, i, all_docs, errors, fetchLog, splitLog, genLog, prev>>

SplitOkAlwaysInvokes ==
    /\ pc = "loop"
    /\ i > Len(urls)
    /\ all_docs # <<>>
    /\ LET entry == [input |-> all_docs, ok |-> TRUE]
       IN  /\ Replays(PrevSplit, Len(splitLog) + 1, entry)
           /\ splitLog' = Append(splitLog, entry)
    /\ docs' = SplitDocuments(all_docs)
    /\ result' = [result EXCEPT !.errors = errors]
    /\ pc' = "chain"
    /\ UNCHANGED <<chain, calls, urls, run, i, all_docs, errors, fetchLog, genLog, prev>>

\* Loop over, `if all_docs:` is true and split_documents returns the chunks;
\* summarize stores errors and returns at once when `if docs:` is false.
SplitOk ==
    /\ pc = "loop"
    /\ i > Len(urls)
    /\ all_docs # <<>>
    /\ LET entry == [input |-> all_docs, ok |-> TRUE]
       IN  /\ Replays(PrevSplit, Len(splitLog) + 1, entry)
           /\ splitLog' = Append(splitLog, entry)
    /\ docs' = SplitDocuments(all_docs)
    /\ result' = [result EXCEPT !.errors = errors]
    /\ pc' = IF docs' # <<>> THEN "chain" ELSE "returned"
    /\ UNCHANGED <<chain, calls, urls, run, i, all_docs, errors, fetchLog, genLog, prev>>

\* split_documents raises: no handler encloses it in load_articles or in
\* summarize, so the exception leaves summarize.
SplitRaise ==
    /\ pc = "loop"
    /\ i > Len(urls)
    /\ all_docs # <<>>
    /\ LET entry == [input |-> all_docs, ok |-> FALSE]
       IN  /\ Replays(PrevSplit, Len(splitLog) + 1, entry)
           /\ splitLog' = Append(splitLog, entry)
    /\ pc' = "raised"
    /\ UNCHANGED <<chain, calls, urls, run, i, all_docs, errors, docs, result, fetchLog, genLog, prev>>

\* chain.invoke(docs) returns the LLM's text: result["summary"] = summary.
InvokeOk(text) ==
    /\ pc = "chain"
    /\ LET entry == [prompt |-> Prompt(docs), ok |-> TRUE, text |-> text, cause |-> <<>>]
       IN  /\ Replays(PrevGen, Len(genLog) + 1, entry)
           /\ genLog' = Append(genLog, entry)
    /\ result' = [result EXCEPT !.summary = Some(text)]
    /\ pc' = "returned"
    /\ UNCHANGED <<chain, calls, urls, run, i, all_docs, errors, docs, fetchLog, splitLog, prev>>

\* The chain raises: result["errors"].append("Summarization error: ...").
InvokeFailReplaces(cause) ==
    /\ pc = "chain"
    /\ LET entry == [prompt |-> Prompt(docs), ok |-> FALSE, text |-> <<>>, cause |-> cause]
       IN  /\ Replays(PrevGen, Len(genLog) + 1, entry)
           /\ genLog' = Append(genLog, entry)
    /\ result' = [result EXCEPT !.errors = <<SummarizationError(cause)>>]
    /\ pc' = "returned"
    /\ UNCHANGED <<chain, calls, urls, run, i, all_docs, errors, docs, fetchLog, splitLog, prev>>
InvokeFailPrepends(cause) ==
    /\ pc = "chain"
    /\ LET entry == [prompt |-> Prompt(docs), ok |-> FALSE, text |-> <<>>, cause |-> cause]
       IN  /\ Replays(PrevGen, Len(genLog) + 1, entry)
           /\ genLog' = Append(genLog, entry)
    /\ result' = [result EXCEPT !.errors = <<SummarizationError(cause)>> \o @]
    /\ pc' = "returned"
    /\ UNCHANGED <<chain, calls, urls, run, i, all_docs, errors, docs, fetchLog, splitLog, prev>>
InvokeFail(cause) ==
    /\ pc = "chain"
    /\ LET entry == [prompt |-> Prompt(docs), ok |-> FALSE, text |-> <<>>, cause |-> cause]
       IN  /\ Replays(PrevGen, Len(genLog) + 1, entry)
           /\ genLog' = Append(genLog, entry)
    /\ result' = [result EXCEPT !.errors = Append(@, SummarizationError(cause))]
    /\ pc' = "returned"
    /\ UNCHANGED <<chain, calls, urls, run, i, all_docs, errors, docs, fetchLog, splitLog, prev>>

Next ==
    \/ \E u \in UrlLists : Summarize(u)
    \/ Resummarize
    \/ SkipBlank
    \/ \E batch \in Batches : FetchOk(batch)
    \/ \E cause \in FetchCauses : FetchFail(cause)
    \/ ReturnNoDocs
    \/ SplitOk
    \/ SplitRaise
    \/ \E text \in GenTexts : InvokeOk(text)
    \/ \E cause \in GenCauses : InvokeFail(cause)

Spec == Init /\ [][Next]_vars

\* ------------------------------------------- the chain on arbitrary chunks
\* Chunk texts and chunk lists handed to chain.invoke; the errors that
\* load_articles returned with them.
ChunkTexts == {<<"x">>, <<"y">>, <<"x", "y">>}
Chunks == [page_content : ChunkTexts, metadata : {[source |-> <<"a">>]}]
ChunkLists == SeqsUpTo(Chunks, MaxChunks)
LoadedErrors == {<<>>, <<ErrorLoading(<<"a">>, <<"timeout">>)>>}

\* summarize at `docs, errors = self.load_articles(urls)` having returned:
\* result["errors"] = errors.
InitChain ==
    /\ urls = <<>>
    /\ run = 0
    /\ pc = "idle"
    /\ i = 1
    /\ all_docs = <<>>
    /\ errors = <<>>
    /\ docs = <<>>
    /\ result = NewResult
    /\ fetchLog = <<>>
    /\ splitLog = <<>>
    /\ genLog = <<>>
    /\ prev = <<>>
    /\ calls = [c \in CallIds |-> IdleCall]
    /\ \E d \in ChunkLists, e \in LoadedErrors :
          chain = [pc |-> "if_docs", docs |-> d, loaded |-> e,
                   result |-> [summary |-> None, errors |-> e], genLog |-> <<>>]

\* `if docs:` is false: summarize returns result as it is.
ChainNoDocs ==
    /\ chain.pc = "if_docs"
    /\ chain.docs = <<>>
    /\ chain' = [chain EXCEPT !.pc = "returned"]
    /\ UNCHANGED <<runVars, calls>>

\* chain.invoke(docs) returns the LLM's text: result["summary"] = summary.
ChainInvokeOk(text) ==
    /\ chain.pc = "if_docs"
    /\ chain.docs # <<>>
    /\ chain' = [chain EXCEPT
                    !.genLog = Append(@, [prompt |-> Prompt(chain.docs), ok |-> TRUE,
                                          text |-> text, cause |-> <<>>]),
                    !.result.summary = Some(text),
                    !.pc = "returned"]
    /\ UNCHANGED <<runVars, calls>>

\* The chain raises: result["errors"].append("Summarization error: ...").
ChainInvokeFail(cause) ==
    /\ chain.pc = "if_docs"
    /\ chain.docs # <<>>
    /\ chain' = [chain EXCEPT
                    !.genLog = Append(@, [prompt |-> Prompt(chain.docs), ok |-> FALSE,
                                          text |-> <<>>, cause |-> cause]),
                    !.result.errors = Append(@, SummarizationError(cause)),
                    !.pc = "returned"]
    /\ UNCHANGED <<runVars, calls>>

NextChain ==
    \/ ChainNoDocs
    \/ \E text \in GenTexts : ChainInvokeOk(text)
    \/ \E cause \in GenCauses : ChainInvokeFail(cause)

SpecChain == InitChain /\ [][NextChain]_vars

\* ------------------------------------ summarize calls running concurrently
\* Each call has its own frame calls[c]: all_docs, errors (load_articles)
\* and result (summarize) are locals; self.llm and self.text_splitter are
\* only read.  A step of a call is one of the steps of the single run above.
CallUrlEntries == {<<" ">>, <<"a">>}
CallUrlLists == SeqsUpTo(CallUrlEntries, MaxCallUrls)

\* The errors list a call appends to and returns: its own local.
InstanceErrors(c) == calls[1].errors
ErrorsOf(c) == calls[c].errors

InitCalls ==
    /\ urls = <<>>
    /\ run = 0
    /\ pc = "idle"
    /\ i = 1
    /\ all_docs = <<>>
    /\ errors = <<>>
    /\ docs = <<>>
    /\ result = NewResult
    /\ fetchLog = <<>>
    /\ splitLog = <<>>
    /\ genLog = <<>>
    /\ prev = <<>>
    /\ chain = IdleChain
    /\ calls = [c \in CallIds |-> IdleCall]

\* Call c enters summarize(u).
CallEnter(c, u) ==
    /\ calls[c].pc = "idle"
    /\ calls' = [calls EXCEPT ![c] =
                    [IdleCall EXCEPT !.pc = "loop", !.urls = u,
                                     !.all_docs = EmptyDocs, !.errors = <<>>]]
    /\ UNCHANGED <<runVars, chain>>

CallSkipBlank(c) ==
    /\ calls[c].pc = "loop"
    /\ calls[c].i <= Len(calls[c].urls)
    /\ ~NonBlank(calls[c].urls[calls[c].i])
    /\ calls' = [calls EXCEPT ![c].i = @ + 1]
    /\ UNCHANGED <<runVars, chain>>

CallFetchOk(c, batch) ==
    /\ calls[c].pc = "loop"
    /\ calls[c].i <= Len(calls[c].urls)
    /\ NonBlank(calls[c].urls[calls[c].i])
    /\ LET url == calls[c].urls[calls[c].i]
       IN  calls' = [calls EXCEPT
               ![c].fetchLog = Append(@, [url |-> url, ok |-> TRUE,
                                          docs |-> batch, cause |-> <<>>]),
               ![c].all_docs = Extend(@, StampSource(batch, url)),
               ![c].i = @ + 1]
    /\ UNCHANGED <<runVars, chain>>

CallFetchFail(c, cause) ==
    /\ calls[c].pc = "loop"
    /\ calls[c].i <= Len(calls[c].urls)
    /\ NonBlank(calls[c].urls[calls[c].i])
    /\ LET url == calls[c].urls[calls[c].i]
       IN  calls' = [calls EXCEPT
               ![c].fetchLog = Append(@, [url |-> url, ok |-> FALSE,
                                          docs |-> <<>>, cause |-> cause]),
               ![c].errors = Append(ErrorsOf(c), ErrorLoading(url, cause)),
               ![c].i = @ + 1]
    /\ UNCHANGED <<runVars, chain>>

CallReturnNoDocs(c) ==
    /\ calls[c].pc = "loop"
    /\ calls[c].i > Len(calls[c].urls)
    /\ calls[c].all_docs = <<>>
    /\ calls' = [calls EXCEPT ![c].docs = <<>>,
                              ![c].result.errors = ErrorsOf(c),
                              ![c].pc = "returned"]
    /\ UNCHANGED <<runVars, chain>>

CallSplitOk(c) ==
    /\ calls[c].pc = "loop"
    /\ calls[c].i > Len(calls[c].urls)
    /\ calls[c].all_docs # <<>>
    /\ LET chunks == SplitDocuments(calls[c].all_docs)
       IN  calls' = [calls EXCEPT
               ![c].splitLog = Append(@, [input |-> calls[c].all_docs, ok |-> TRUE]),
               ![c].docs = chunks,
               ![c].result.errors = ErrorsOf(c),
               ![c].pc = IF chunks # <<>> THEN "chain" ELSE "returned"]
    /\ UNCHANGED <<runVars, chain>>

CallSplitRaise(c) ==
    /\ calls[c].pc = "loop"
    /\ calls[c].i > Len(calls[c].urls)
    /\ calls[c].all_docs # <<>>
    /\ calls' = [calls EXCEPT
            ![c].splitLog = Append(@, [input |-> calls[c].all_docs, ok |-> FALSE]),
            ![c].pc = "raised"]
    /\ UNCHANGED <<runVars, chain>>

CallInvokeOk(c, text) ==
    /\ calls[c].pc = "chain"
    /\ calls' = [calls EXCEPT
            ![c].genLog = Append(@, [prompt |-> Prompt(calls[c].docs), ok |-> TRUE,
                                     text |-> text, cause |-> <<>>]),
            ![c].result.summary = Some(text),
            ![c].pc = "returned"]
    /\ UNCHANGED <<runVars, chain>>

CallInvokeFail(c, cause) ==
    /\ calls[c].pc = "chain"
    /\ calls' = [calls EXCEPT
            ![c].genLog = Append(@, [prompt |-> Prompt(calls[c].docs), ok |-> FALSE,
                                     text |-> <<>>, cause |-> cause]),
            ![c].result.errors = Append(@, SummarizationError(cause)),
            ![c].pc = "returned"]
    /\ UNCHANGED <<runVars, chain>>

NextCalls ==
    \E c \in CallIds :
        \/ \E u \in CallUrlLists : CallEnter(c, u)
        \/ CallSkipBlank(c)
        \/ \E batch \in Batches : CallFetchOk(c, batch)
        \/ \E cause \in FetchCauses : CallFetchFail(c, cause)
        \/ CallReturnNoDocs(c)
        \/ CallSplitOk(c)
        \/ CallSplitRaise(c)
        \/ \E text \in GenTexts : CallInvokeOk(c, text)
        \/ \E cause \in GenCauses : CallInvokeFail(c, cause)

SpecCalls == InitCalls /\ [][NextCalls]_vars

\* ---------------------------------------------------------- vocabulary
\* The run has left summarize, by return or by an exception.
Finished == pc \in {"returned", "raised"}

\* A URL entry made of whitespace only (the empty entry included).
IsBlankEntry(u) == \A k \in 1..Len(u) : u[k] = " "

\* The entries of a URL list that are not blank, in list order.
RECURSIVE NonBlankEntries(_)
NonBlankEntries(us) ==
    IF us = <<>> THEN <<>>
    ELSE IF IsBlankEntry(Head(us)) THEN NonBlankEntries(Tail(us))
    ELSE <<Head(us)>> \o NonBlankEntries(Tail(us))

\* The URLs the Fetcher was called with, in call order.
FetchedUrls(log) == [k \in 1..Len(log) |-> log[k].url]

\* The messages owed to the failed Fetcher calls, in call order.
RECURSIVE FetchFailureMessages(_)
FetchFailureMessages(log) ==
    IF log = <<>> THEN <<>>
    ELSE IF Head(log).ok THEN FetchFailureMessages(Tail(log))
    ELSE << <<"Error loading ">> \o Head(log).url \o <<": ">> \o Head(log).cause >>
         \o FetchFailureMessages(Tail(log))

\* The batches of the successful Fetcher calls, concatenated in call order,
\* every document carrying the URL of its call as source.
RECURSIVE FetchedDocuments(_)
FetchedDocuments(log) ==
    IF log = <<>> THEN <<>>
    ELSE LET e == Head(log)
             Sourced(d) ==
                 [page_content |-> d.page_content,
                  metadata |-> [k \in DOMAIN d.metadata \cup {"source"} |->
                                   IF k = "source" THEN e.url ELSE d.metadata[k]]]
         IN  [k \in 1..Len(e.docs) |-> Sourced(e.docs[k])]
             \o FetchedDocuments(Tail(log))

SomeFetchOk == \E k \in 1..Len(fetchLog) : fetchLog[k].ok
SomeFetchFailed == \E k \in 1..Len(fetchLog) : ~fetchLog[k].ok
EveryFetchFailed == \A k \in 1..Len(fetchLog) : ~fetchLog[k].ok
SplitFailed == \E k \in 1..Len(splitLog) : ~splitLog[k].ok
GenOk == \E k \in 1..Len(genLog) : genLog[k].ok
GenFailed == \E k \in 1..Len(genLog) : ~genLog[k].ok

\* ------------------------------------------------------------------ C1
\* C1: whatever the fetch outcomes and the generation outcome, no fetch
\* failure and no generation failure leaves summarize as an exception: after
\* a failed fetch the loop is still running or the run went on, once the
\* Generator has answered (success or failure) summarize has returned a
\* result, and the only exception that ever leaves it is the Chunker's.
C1_NoFetchOrGenerationFailureEscapes ==
    /\ pc = "raised" => (splitLog # <<>> /\ ~splitLog[Len(splitLog)].ok /\ genLog = <<>>)
    /\ genLog # <<>> => pc = "returned"
    /\ (Finished /\ ~SplitFailed) =>
          /\ pc = "returned"
          /\ Len(result.summary) <= 1
          /\ DOMAIN result = {"summary", "errors"}

C1_Witness ==
    /\ pc = "returned"
    /\ SomeFetchFailed
    /\ GenFailed

\* ------------------------------------------------------------------ C2
\* C2 (as stated): with at least one successful fetch, the returned errors
\* are exactly the "Error loading" messages of the failing URLs in input
\* order and nothing else, and summary is present if generation succeeded.
C2_ErrorsOnlyFetchMessages ==
    (pc = "returned" /\ SomeFetchOk) =>
        /\ result.errors = FetchFailureMessages(fetchLog)
        /\ GenOk => result.summary # None

\* C2 (amended): with at least one successful fetch, the returned errors
\* are the "Error loading" messages of the failing URLs in input order,
\* followed by one "Summarization error" message exactly when the Generator
\* was invoked and failed; summary is the Generator's text if it succeeded.
C2_ErrorsFetchThenGeneration ==
    (pc = "returned" /\ SomeFetchOk) =>
        /\ result.errors =
              FetchFailureMessages(fetchLog)
              \o (IF GenFailed
                  THEN << <<"Summarization error: ">> \o genLog[1].cause >>
                  ELSE <<>>)
        /\ GenOk => result.summary = <<genLog[1].text>>

C2_Witness ==
    /\ pc = "returned"
    /\ SomeFetchOk
    /\ SomeFetchFailed
    /\ GenFailed
    /\ Len(result.errors) = 2

\* ------------------------------------------------------------------ C3
\* C3 (as stated): when every fetch fails, summary is absent and errors
\* holds exactly len(urls) messages, one per failing URL, in input order.
C3_OneMessagePerListEntry ==
    (pc = "returned" /\ fetchLog # <<>> /\ EveryFetchFailed) =>
        /\ result.summary = None
        /\ Len(result.errors) = Len(urls)
        /\ result.errors = FetchFailureMessages(fetchLog)

\* C3 (amended): when every fetch fails, summary is absent and errors holds
\* exactly one message per non-blank URL entry, in input order; blank
\* entries contribute no message.
C3_OneMessagePerNonBlankEntry ==
    (pc = "returned" /\ EveryFetchFailed) =>
        /\ result.summary = None
        /\ Len(result.errors) = Len(NonBlankEntries(urls))
        /\ \A k \in 1..Len(result.errors) :
              result.errors[k] =
                  <<"Error loading ">> \o NonBlankEntries(urls)[k]
                  \o <<": ">> \o fetchLog[k].cause

C3_Witness ==
    /\ pc = "returned"
    /\ fetchLog # <<>>
    /\ EveryFetchFailed
    /\ \E k \in 1..Len(urls) : IsBlankEntry(urls[k])
    /\ Len(result.errors) < Len(urls)

\* ------------------------------------------------------------------ C4
\* C4: when no document was accumulated by the end of fetching, summarize
\* returns summary absent without invoking the Generator and errors is
\* exactly the fetch-failure messages; for a list of blank entries only, no
\* fetch is attempted and the result is {summary: absent, errors: []}.
C4_NoDocumentsNoSummary ==
    /\ (pc # "loop" /\ pc # "idle" /\ all_docs = <<>>) =>
          /\ pc = "returned"
          /\ result.summary = None
          /\ genLog = <<>>
          /\ result.errors = FetchFailureMessages(fetchLog)
    /\ (pc # "idle" /\ \A k \in 1..Len(urls) : IsBlankEntry(urls[k])) =>
          /\ fetchLog = <<>>
          /\ pc = "returned" => result = [summary |-> None, errors |-> <<>>]

C4_Witness ==
    /\ pc = "returned"
    /\ Len(urls) = 2
    /\ \A k \in 1..Len(urls) : IsBlankEntry(urls[k])
    /\ result = [summary |-> None, errors |-> <<>>]

\* ------------------------------------------------------------------ C5
\* C5: a Fetcher call for URL u that fails with cause c appends exactly the
\* message "Error loading u: c" to errors, leaves the accumulated documents
\* unchanged and moves the loop to the next entry; once the loop is over the
\* Fetcher has been called for every non-blank entry of the list.
C5_FailingUrlNeverEndsLoop ==
    /\ [][ (Len(fetchLog') = Len(fetchLog) + 1 /\ ~fetchLog'[Len(fetchLog')].ok) =>
             /\ fetchLog'[Len(fetchLog')].url = urls[i]
             /\ errors' = errors \o
                   << <<"Error loading ">> \o urls[i] \o <<": ">>
                      \o fetchLog'[Len(fetchLog')].cause >>
             /\ all_docs' = all_docs
             /\ pc' = "loop"
             /\ i' = i + 1 ]_vars
    /\ []((pc \in {"chain", "returned", "raised"} \/ (pc = "loop" /\ i > Len(urls)))
            => FetchedUrls(fetchLog) = NonBlankEntries(urls))

C5_Witness ==
    /\ Finished
    /\ Len(fetchLog) = 2
    /\ ~fetchLog[1].ok
    /\ fetchLog[2].ok
    /\ all_docs # <<>>

\* ------------------------------------------------------------------ C6
\* C6: when documents were fetched and the summary chain fails with cause c,
\* summarize returns summary absent and errors equal to the fetch-failure
\* messages in input order followed by the single "Summarization error: c".
C6_GenerationFailureAppended ==
    (pc = "returned" /\ GenFailed) =>
        /\ all_docs # <<>>
        /\ result.summary = None
        /\ result.errors =
              FetchFailureMessages(fetchLog)
              \o << <<"Summarization error: ">> \o genLog[Len(genLog)].cause >>

C6_Witness ==
    /\ pc = "returned"
    /\ GenFailed
    /\ SomeFetchFailed
    /\ Len(result.errors) = 2

\* ------------------------------------------------------------------ C7
\* C7: within one run the Fetcher is called exactly once per non-blank entry
\* already passed by the loop, in list order (no retry of a failed fetch);
\* the Generator is called at most once, only after the loop has passed the
\* last entry, and the run ends with that call whether it failed or not.
C7_OneFetchPerEntryOneGeneration ==
    /\ pc \in {"loop", "chain", "returned", "raised"} =>
          FetchedUrls(fetchLog) = NonBlankEntries(SubSeq(urls, 1, i - 1))
    /\ pc \in {"chain", "returned", "raised"} => i = Len(urls) + 1
    /\ Len(genLog) <= 1
    /\ genLog # <<>> =>
          /\ i = Len(urls) + 1
          /\ FetchedUrls(fetchLog) = NonBlankEntries(urls)
          /\ pc = "returned"
    /\ pc = "chain" => genLog = <<>>

C7_Witness ==
    /\ pc = "returned"
    /\ Len(fetchLog) = 2
    /\ ~fetchLog[1].ok
    /\ fetchLog[1].url = fetchLog[2].url
    /\ GenFailed

\* ------------------------------------------------------------------ C8
\* C8: a second summarize call on the same instance with the same URL list,
\* the Fetcher and the Generator answering each call as in the first run,
\* returns a RunResult identical to the first one.
C8_RerunSameResult ==
    (prev # <<>> /\ Finished) =>
        /\ pc = prev[1].pc
        /\ pc = "returned" => result = prev[1].result

C8_Witness ==
    /\ prev # <<>>
    /\ pc = "returned"
    /\ prev[1].pc = "returned"
    /\ result.errors # <<>>
    /\ result.summary # None

\* ------------------------------------------------------------------ C9
\* C9: every failure path, a failure of the Chunker included, ends in a
\* returned RunResult whose errors are non-empty; none leaves summarize as
\* an exception.
C9_EveryFailureRecorded ==
    /\ pc # "raised"
    /\ (pc = "returned" /\ (SomeFetchFailed \/ SplitFailed \/ GenFailed)) =>
          result.errors # <<>>

\* ----------------------------------------------------------------- C10
\* C10: the documents handed to the Chunker are the batches of the
\* successful fetches concatenated in URL-list order, nothing reordered or
\* deduplicated, every document's source being the URL entry it was fetched
\* for, whatever source the Fetcher supplied.
C10_ChunkerInputIsFetchedDocuments ==
    /\ all_docs = FetchedDocuments(fetchLog)
    /\ \A k \in 1..Len(splitLog) :
          /\ splitLog[k].input = FetchedDocuments(fetchLog)
          /\ FetchedUrls(fetchLog) = NonBlankEntries(urls)

C10_Witness ==
    /\ Len(splitLog) = 1
    /\ Len(fetchLog) = 2
    /\ fetchLog[1].url = fetchLog[2].url
    /\ fetchLog[1].ok /\ fetchLog[2].ok
    /\ fetchLog[1].docs = fetchLog[2].docs
    /\ Len(fetchLog[1].docs) = 1
    /\ "source" \in DOMAIN fetchLog[1].docs[1].metadata
    /\ fetchLog[1].docs[1].metadata.source # fetchLog[1].url
    /\ Len(splitLog[1].input) = 2
    /\ splitLog[1].input[1] = splitLog[1].input[2]

\* ----------------------------------------------------------------- C14
\* A message built by the generation handler.
IsSummarizationError(m) == m # <<>> /\ m[1] = "Summarization error: "

\* C14: in every returned RunResult, summary is present exactly when the
\* Generator was invoked once and succeeded; a present summary and a
\* "Summarization error" message never occur together; errors holds at most
\* one such message and only as its last element; and errors is no longer
\* than the number of non-blank URL entries plus one.
C14_ResultShape ==
    pc = "returned" =>
        /\ (result.summary # None) <=> (Len(genLog) = 1 /\ genLog[1].ok)
        /\ ~(/\ result.summary # None
             /\ \E k \in 1..Len(result.errors) : IsSummarizationError(result.errors[k]))
        /\ Cardinality({k \in 1..Len(result.errors) :
                           IsSummarizationError(result.errors[k])}) <= 1
        /\ \A k \in 1..Len(result.errors) :
              IsSummarizationError(result.errors[k]) => k = Len(result.errors)
        /\ Len(result.errors) <= Len(NonBlankEntries(urls)) + 1

C14_Witness ==
    /\ pc = "returned"
    /\ Len(NonBlankEntries(urls)) = 2
    /\ Len(result.errors) = 2
    /\ ~IsSummarizationError(result.errors[1])
    /\ IsSummarizationError(result.errors[2])
    /\ result.summary = None

\* ----------------------------------------------------------------- C15
\* Nothing reached the chain: every successful fetch came back empty, or the
\* Chunker returned no chunk for the fetched documents.
NothingToSummarize ==
    \/ \A k \in 1..Len(fetchLog) : ~fetchLog[k].ok \/ fetchLog[k].docs = <<>>
    \/ /\ splitLog # <<>>
       /\ splitLog[Len(splitLog)].ok
       /\ docs = <<>>

\* C15: a successful fetch that returns no document adds neither a document
\* nor an error and the loop goes on; and when nothing is left to summarize
\* although a fetch succeeded, summarize returns summary absent without
\* invoking the Generator, its errors being the fetch-failure messages only.
C15_EmptyFetchIsSilent ==
    /\ [][ (/\ Len(fetchLog') = Len(fetchLog) + 1
            /\ fetchLog'[Len(fetchLog')].ok
            /\ fetchLog'[Len(fetchLog')].docs = <<>>) =>
             /\ all_docs' = all_docs
             /\ errors' = errors
             /\ pc' = "loop"
             /\ i' = i + 1 ]_vars
    /\ []((Finished /\ NothingToSummarize) =>
             /\ pc = "returned"
             /\ result.summary = None
             /\ genLog = <<>>
             /\ result.errors = FetchFailureMessages(fetchLog))

C15_Witness ==
    /\ pc = "returned"
    /\ Len(fetchLog) = 2
    /\ fetchLog[1].ok /\ fetchLog[1].docs = <<>>
    /\ fetchLog[2].ok /\ Len(fetchLog[2].docs) = 1
    /\ splitLog # <<>> /\ splitLog[1].ok
    /\ docs = <<>>
    /\ genLog = <<>>
    /\ result = [summary |-> None, errors |-> <<>>]

\* ----------------------------------------------------------------- C11
\* The texts of the first n chunks, in order, a double newline between
\* neighbours.
RECURSIVE JoinedTexts(_, _)
JoinedTexts(cs, n) ==
    IF n = 0 THEN <<>>
    ELSE IF n = 1 THEN cs[1].page_content
    ELSE JoinedTexts(cs, n - 1) \o <<"\n\n">> \o cs[n].page_content

\* C11: with at least one chunk the Generator receives, once, the template
\* with {context} replaced by all chunk texts in chunk order joined by a
\* double newline; with a single chunk and no fetch error the context is
\* that chunk's text, summary is the Generator's text and errors is empty.
C11_PromptIsTemplateOverJoinedChunks ==
    /\ \A k \in 1..Len(chain.genLog) :
          /\ chain.docs # <<>>
          /\ chain.genLog[k].prompt =
                <<TemplateHead>> \o JoinedTexts(chain.docs, Len(chain.docs))
                \o <<TemplateTail>>
    /\ (chain.pc = "returned" /\ chain.docs # <<>>) => Len(chain.genLog) = 1
    /\ (chain.pc = "returned" /\ chain.docs = <<>>) => chain.genLog = <<>>
    /\ (/\ chain.pc = "returned"
        /\ Len(chain.docs) = 1
        /\ chain.loaded = <<>>
        /\ \E k \in 1..Len(chain.genLog) : chain.genLog[k].ok) =>
          /\ chain.genLog[1].prompt =
                <<TemplateHead>> \o chain.docs[1].page_content \o <<TemplateTail>>
          /\ chain.result.summary = <<chain.genLog[1].text>>
          /\ chain.result.errors = <<>>

C11_Witness ==
    /\ chain.pc = "returned"
    /\ Len(chain.docs) = 3
    /\ chain.docs[1].page_content = <<"y">>
    /\ chain.docs[2].page_content = <<"x", "y">>
    /\ chain.docs[3].page_content = <<"x">>
    /\ Len(chain.genLog) = 1
    /\ chain.genLog[1].ok
    /\ chain.genLog[1].prompt =
          <<TemplateHead, "y", "\n\n", "x", "y", "\n\n", "x", TemplateTail>>

\* ----------------------------------------------------------------- C13
\* The RunResult a call owes to the answers it received itself.
OwnResult(c) ==
    LET g == calls[c].genLog
    IN  [summary |-> IF g # <<>> /\ g[1].ok THEN <<g[1].text>> ELSE <<>>,
         errors |-> FetchFailureMessages(calls[c].fetchLog)
                    \o (IF g # <<>> /\ ~g[1].ok
                        THEN << <<"Summarization error: ">> \o g[1].cause >>
                        ELSE <<>>)]

\* C13: under every interleaving of the steps of concurrent summarize calls
\* on one instance, the documents a call accumulates are those of its own
\* successful fetches, it fetches its own URL entries, and the RunResult it
\* returns is the one owed to the answers it received itself: no message or
\* document of another call appears in it.
C13_CallsOwnTheirState ==
    \A c \in CallIds :
        /\ calls[c].all_docs = FetchedDocuments(calls[c].fetchLog)
        /\ calls[c].pc # "idle" =>
              FetchedUrls(calls[c].fetchLog) =
                  NonBlankEntries(SubSeq(calls[c].urls, 1, calls[c].i - 1))
        /\ Len(calls[c].genLog) <= 1
        /\ calls[c].pc = "returned" => calls[c].result = OwnResult(c)

C13_Witness ==
    /\ calls[1].pc = "returned"
    /\ calls[1].result.errors # <<>>
    /\ calls[1].result.summary = None
    /\ calls[2].pc = "returned"
    /\ calls[2].result.errors = <<>>
    /\ calls[2].result.summary # None
    /\ calls[1].urls = calls[2].urls

====
